---- MODULE Spec2Model ----
(***************************************************************************)
(* Patient-records screen (the Home component), its REST client and the    *)
(* record service it talks to.                                             *)
(*                                                                         *)
(* Strings are sequences of one-character strings, so that trim, the two   *)
(* regular expressions, toLowerCase, includes and split are computed       *)
(* character by character.  Banner and field messages are the literal      *)
(* messages of the source.                                                 *)
(***************************************************************************)
EXTENDS Integers, Sequences, FiniteSets, TLC

VARIABLES
    patients,        \* useState<Patient[]>([])
    loading,         \* useState(true)
    formData,        \* useState<PatientFormData>(initialFormData)
    errors,          \* useState<FormErrors>({})
    editingId,       \* useState<number | null>(null): <<>> is null, <<i>> is i
    showForm,        \* useState(false)
    successMessage,  \* useState('')
    errorMessage,    \* useState('')
    searchKeyword,   \* useState('')
    calls,           \* every HTTP call issued so far, in issue order
    server,          \* the record service's list of records
    nextId           \* the next identifier the service assigns

vars == <<patients, loading, formData, errors, editingId, showForm,
          successMessage, errorMessage, searchKeyword, calls, server, nextId>>

uiVars == <<patients, loading, formData, errors, editingId, showForm,
            successMessage, errorMessage, searchKeyword>>

-----------------------------------------------------------------------------
(* Bounds of the model *)

\* calls issued in one run of the screen (the mount fetch included)
MaxCalls == 3
\* the same, in the runs where the user only presses buttons
MaxRaceCalls == 5
\* length of the identity-number strings the validator is run on
MaxNikLen == 3
\* length of the email strings the validator is run on
MaxEmailLen == 5
\* length of the record lists the filter is run on
MaxListLen == 2
\* length of the search keywords
MaxKeywordLen == 2

-----------------------------------------------------------------------------
(* Strings *)

EmptyStr == <<>>

\* all strings over the alphabet chars of length at most n
RECURSIVE StringsUpTo(_, _)
StringsUpTo(chars, n) ==
    IF n = 0 THEN {EmptyStr}
    ELSE LET shorter == StringsUpTo(chars, n - 1)
         IN  shorter \cup {Append(s, c) : s \in shorter, c \in chars}

\* \s of the regular expressions, and what String.prototype.trim removes
WhiteSpace == {" ", "\t", "\n"}

Digits == {"0", "1", "2", "3", "4", "5", "6", "7", "8", "9"}

RECURSIVE TrimStart(_)
TrimStart(s) ==
    IF s # EmptyStr /\ Head(s) \in WhiteSpace THEN TrimStart(Tail(s)) ELSE s

RECURSIVE TrimEnd(_)
TrimEnd(s) ==
    IF s # EmptyStr /\ s[Len(s)] \in WhiteSpace
    THEN TrimEnd(SubSeq(s, 1, Len(s) - 1))
    ELSE s

\* String.prototype.trim
Trim(s) == TrimEnd(TrimStart(s))

\* JavaScript truthiness of a string
Truthy(s) == s # EmptyStr

\* the pattern without its anchors, /[0-9]+/: some digit occurs
NikPatternUnanchored(s) == \E i \in 1..Len(s) : s[i] \in Digits

\* /^[0-9]+$/.test(s)
NikPattern(s) == Len(s) >= 1 /\ \A i \in 1..Len(s) : s[i] \in Digits

\* [^\s@]
EmailClass(c) == c \notin WhiteSpace /\ c # "@"

\* the pattern without its last part, /^[^\s@]+@[^\s@]+\./: nothing need
\* follow the '.'
EmailPatternNoTld(s) ==
    \E i \in 1..Len(s), j \in 1..Len(s) :
        /\ 2 <= i
        /\ i + 2 <= j
        /\ s[i] = "@"
        /\ s[j] = "."
        /\ \A k \in 1..j : k # i => (s[k] \notin WhiteSpace /\ s[k] # "@")

\* /^[^\s@]+@[^\s@]+\.[^\s@]+$/.test(s): the one '@' at position i, a '.' of
\* the part after it at position j, with one or more class characters before
\* the '@', between the two, and after the '.'
EmailPattern(s) ==
    \E i \in 1..Len(s), j \in 1..Len(s) :
        /\ 2 <= i
        /\ i + 2 <= j
        /\ j + 1 <= Len(s)
        /\ s[i] = "@"
        /\ s[j] = "."
        /\ \A k \in 1..Len(s) : k # i => EmailClass(s[k])

LowerOf(c) ==
    CASE c = "A" -> "a" [] c = "B" -> "b" [] c = "S" -> "s" [] c = "U" -> "u"
      [] c = "L" -> "l" [] c = "J" -> "j" [] c = "O" -> "o"
      [] OTHER -> c

\* String.prototype.toLowerCase, on the letters the model uses
ToLowerCase(s) == [i \in 1..Len(s) |-> LowerOf(s[i])]

\* String.prototype.includes
Includes(s, sub) ==
    \E k \in 0..(Len(s) - Len(sub)) : SubSeq(s, k + 1, k + Len(sub)) = sub

\* s.split(sep)[0]: the part of s before the first sep, all of s without one
RECURSIVE SplitFirst(_, _)
SplitFirst(s, sep) ==
    IF s = EmptyStr \/ Head(s) = sep THEN EmptyStr
    ELSE <<Head(s)>> \o SplitFirst(Tail(s), sep)

\* Array.prototype.join(', ') on an array of message strings
RECURSIVE Join(_)
Join(arr) ==
    IF arr = <<>> THEN ""
    ELSE IF Len(arr) = 1 THEN arr[1]
    ELSE arr[1] \o ", " \o Join(Tail(arr))

-----------------------------------------------------------------------------
(* The form and its validator *)

Fields == {"nama", "nik", "tanggal_lahir", "jenis_kelamin", "alamat",
           "no_telepon", "email", "golongan_darah"}

initialFormData ==
    [nama |-> EmptyStr, nik |-> EmptyStr, tanggal_lahir |-> EmptyStr,
     jenis_kelamin |-> EmptyStr, alamat |-> EmptyStr, no_telepon |-> EmptyStr,
     email |-> EmptyStr, golongan_darah |-> EmptyStr]

NoErrors == [f \in {} |-> ""]

\* the message validateForm puts under field f for the draft fd, "" for none
FieldError(fd, f) ==
    CASE f = "nama" ->
            IF ~Truthy(Trim(fd.nama)) THEN "Nama tidak boleh kosong" ELSE ""
      [] f = "nik" ->
            IF ~Truthy(Trim(fd.nik)) THEN "NIK tidak boleh kosong"
            ELSE IF ~NikPattern(fd.nik) THEN "NIK hanya boleh berisi angka"
            ELSE ""
      [] f = "tanggal_lahir" ->
            IF ~Truthy(fd.tanggal_lahir) THEN "Tanggal lahir tidak boleh kosong"
            ELSE ""
      [] f = "jenis_kelamin" ->
            IF ~Truthy(fd.jenis_kelamin) THEN "Jenis kelamin tidak boleh kosong"
            ELSE ""
      [] f = "alamat" ->
            IF ~Truthy(Trim(fd.alamat)) THEN "Alamat tidak boleh kosong" ELSE ""
      [] f = "no_telepon" ->
            IF ~Truthy(Trim(fd.no_telepon)) THEN "No telepon tidak boleh kosong"
            ELSE ""
      [] f = "golongan_darah" ->
            IF ~Truthy(fd.golongan_darah)
            THEN "Golongan darah tidak boleh kosong" ELSE ""
      [] f = "email" ->
            IF Truthy(fd.email) /\ ~EmailPattern(fd.email)
            THEN "Format email tidak valid" ELSE ""

\* the order validateForm checks the fields in
ValidationOrder == <<"nama", "nik", "tanggal_lahir", "jenis_kelamin", "alamat",
                     "no_telepon", "golongan_darah", "email">>

\* a validator that stops at the first field that fails
newErrorsFirstOnly(fd) ==
    LET failing == {k \in 1..Len(ValidationOrder) :
                        FieldError(fd, ValidationOrder[k]) # ""}
        first == {ValidationOrder[k] : k \in {j \in failing : \A i \in failing : j <= i}}
    IN  [f \in first |-> FieldError(fd, f)]

\* newErrors of validateForm: one key for each field that fails its rule
newErrors(fd) ==
    [f \in {g \in Fields : FieldError(fd, g) # ""} |-> FieldError(fd, f)]

\* the value validateForm returns: Object.keys(newErrors).length === 0
validateForm(fd) == DOMAIN newErrors(fd) = {}

-----------------------------------------------------------------------------
(* Field values *)

Ana == <<"A", "n", "a">>
Budi == <<"B", "u", "d", "i">>
Sari == <<"S", "a", "r", "i">>
Nik12 == <<"1", "2">>
Nik34 == <<"3", "4">>
Nik56 == <<"5", "6">>
Nik12AB == <<"1", "2", "A", "B">>
DateOnly == <<"2", "0", "0", "0", "-", "0", "1", "-", "3", "1">>
\* the service returns dates as ISO date-times
IsoTime == <<"T", "0", "0", ":", "0", "0", "Z">>
LakiLaki == <<"L", "a", "k", "i", "-", "l", "a", "k", "i">>
Jalan == <<"J", "l", " ", "1">>
Telepon == <<"0", "8", "1">>
EmailOk == <<"a", "@", "b", ".", "c">>
EmailBad == <<"a", "@", "b">>
GolO == <<"O">>

\* a draft with every field filled and well-formed
FilledDraft ==
    [nama |-> Ana, nik |-> Nik56, tanggal_lahir |-> DateOnly,
     jenis_kelamin |-> LakiLaki, alamat |-> Jalan, no_telepon |-> Telepon,
     email |-> EmailOk, golongan_darah |-> GolO]

-----------------------------------------------------------------------------
(* Records (created_at and updated_at are only displayed, and left out) *)

NullId == <<>>

\* the Patient the service stores for a draft under identifier i
RecordOf(i, data) ==
    [id |-> i, nama |-> data.nama, nik |-> data.nik,
     tanggal_lahir |-> SplitFirst(data.tanggal_lahir, "T") \o IsoTime,
     jenis_kelamin |-> data.jenis_kelamin, alamat |-> data.alamat,
     no_telepon |-> data.no_telepon, email |-> data.email,
     golongan_darah |-> data.golongan_darah]

Ids(list) == {list[k].id : k \in 1..Len(list)}

-----------------------------------------------------------------------------
(* Record list filter *)

\* the predicate with the keyword compared as typed
MatchesKeywordCaseSensitive(patient, keyword) ==
    \/ Includes(ToLowerCase(patient.nama), keyword)
    \/ Includes(patient.nik, keyword)

\* the predicate of patients.filter(...) for one record
MatchesKeyword(patient, keyword) ==
    \/ Includes(ToLowerCase(patient.nama), ToLowerCase(keyword))
    \/ Includes(patient.nik, keyword)

\* a filter that loses the first record it selects
FilterSkipsFirst(list, keyword) ==
    LET selected == SelectSeq(list, LAMBDA patient : MatchesKeyword(patient, keyword))
    IN  IF selected = <<>> THEN <<>> ELSE Tail(selected)

Filter(list, keyword) ==
    SelectSeq(list, LAMBDA patient : MatchesKeyword(patient, keyword))

\* the derived view, recomputed on every render
filteredPatients == Filter(patients, searchKeyword)

-----------------------------------------------------------------------------
(* HTTP calls: the client of lib/api.ts and the in-flight requests *)

\* error.response.data of a failed call; response = FALSE is a network error
NoError == [response |-> FALSE, hasErrors |-> FALSE, errors |-> <<>>, message |-> ""]

ErrNikExists ==
    [response |-> TRUE, hasErrors |-> TRUE,
     errors |-> <<"NIK already exists">>, message |-> "Conflict"]
ErrTwoFields ==
    [response |-> TRUE, hasErrors |-> TRUE,
     errors |-> <<"nik must be longer", "email must be an email">>,
     message |-> "Bad Request"]
ErrNoFields ==
    [response |-> TRUE, hasErrors |-> TRUE, errors |-> <<>>, message |-> "Bad Request"]
ErrNotFound ==
    [response |-> TRUE, hasErrors |-> FALSE, errors |-> <<>>,
     message |-> "Patient not found"]
ErrNoMessage ==
    [response |-> TRUE, hasErrors |-> FALSE, errors |-> <<>>, message |-> ""]
ErrInternal ==
    [response |-> TRUE, hasErrors |-> FALSE, errors |-> <<>>,
     message |-> "Internal server error"]

\* the failures a call can meet whatever the records are: the network fails,
\* or the service rejects a draft or breaks
Failures(kind) ==
    IF kind \in {"create", "update"}
    THEN {NoError, ErrInternal, ErrTwoFields, ErrNoFields, ErrNoMessage}
    ELSE {NoError, ErrInternal}

Mutations == {"create", "update", "delete"}

\* a call just issued; cause is the call whose success issued it (0: the mount)
NewCall(kind, id, data, cause) ==
    [kind |-> kind, id |-> id, data |-> data, cause |-> cause,
     stage |-> "sent", list |-> <<>>, err |-> NoError]

\* the service answered call c
Answered(c, stage, list, err) ==
    [calls EXCEPT ![c].stage = stage, ![c].list = list, ![c].err = err]

\* the handler that awaited call c has run on its answer
Settled(c, outcome) ==
    [calls EXCEPT ![c].stage = outcome, ![c].list = <<>>, ![c].err = NoError,
                  ![c].data = initialFormData]

Unsettled == {c \in 1..Len(calls) : calls[c].stage \in {"sent", "ok", "fail"}}

PendingMutations == {c \in Unsettled : calls[c].kind \in Mutations}

\* a run of at most limit calls has room for one more mutation and the list
\* fetch its success issues, each pending mutation keeping room for its own
CanIssueMutation(limit) ==
    Len(calls) + Cardinality(PendingMutations) + 2 <= limit

-----------------------------------------------------------------------------
(* The screen: construction and the mount effect *)

ServerRecords ==
    <<RecordOf(0, [FilledDraft EXCEPT !.nama = Budi, !.nik = Nik12]),
      RecordOf(1, [FilledDraft EXCEPT !.nama = Sari, !.nik = Nik34,
                                      !.email = EmptyStr])>>

\* the state hooks' initial values, and fetchPatients() of the mount effect
\* already issued
Init ==
    /\ patients = <<>>
    /\ loading = TRUE
    /\ formData = initialFormData
    /\ errors = NoErrors
    /\ editingId = NullId
    /\ showForm = FALSE
    /\ successMessage = ""
    /\ errorMessage = ""
    /\ searchKeyword = EmptyStr
    /\ calls = <<NewCall("list", NullId, initialFormData, 0)>>
    /\ server = ServerRecords
    /\ nextId = 2

-----------------------------------------------------------------------------
(* fetchPatients *)

\* a fetch whose response is added to the list held
FetchSuccessAppends(c) ==
    /\ calls[c].kind = "list"
    /\ calls[c].stage = "ok"
    /\ patients' = patients \o calls[c].list
    /\ loading' = FALSE
    /\ calls' = Settled(c, "resolved")
    /\ UNCHANGED <<formData, errors, editingId, showForm, successMessage,
                   errorMessage, searchKeyword, server, nextId>>

\* fetchPatients resumed after getAllPatients() resolved
FetchSuccess(c) ==
    /\ calls[c].kind = "list"
    /\ calls[c].stage = "ok"
    /\ patients' = calls[c].list
    /\ loading' = FALSE
    /\ calls' = Settled(c, "resolved")
    /\ UNCHANGED <<formData, errors, editingId, showForm, successMessage,
                   errorMessage, searchKeyword, server, nextId>>

\* a failed fetch that empties the list
FetchFailureClearsList(c) ==
    /\ calls[c].kind = "list"
    /\ calls[c].stage = "fail"
    /\ patients' = <<>>
    /\ errorMessage' = "Gagal mengambil data pasien. Pastikan backend sudah berjalan."
    /\ loading' = FALSE
    /\ calls' = Settled(c, "rejected")
    /\ UNCHANGED <<formData, errors, editingId, showForm,
                   successMessage, searchKeyword, server, nextId>>

\* fetchPatients resumed after getAllPatients() rejected
FetchFailure(c) ==
    /\ calls[c].kind = "list"
    /\ calls[c].stage = "fail"
    /\ errorMessage' = "Gagal mengambil data pasien. Pastikan backend sudah berjalan."
    /\ loading' = FALSE
    /\ calls' = Settled(c, "rejected")
    /\ UNCHANGED <<patients, formData, errors, editingId, showForm,
                   successMessage, searchKeyword, server, nextId>>

-----------------------------------------------------------------------------
(* handleSubmit *)

\* if (editingId): null and 0 are both falsy
IdTruthy(id) == id # NullId /\ id[1] # 0

\* the call handleSubmit awaits for a valid draft
SubmitCall(id, fd) ==
    IF IdTruthy(id) THEN NewCall("update", id, fd, 0)
    ELSE NewCall("create", NullId, fd, 0)

\* a submit that validates and goes on whatever the validator returned
HandleSubmitNoReturn ==
    /\ showForm
    /\ successMessage' = ""
    /\ errorMessage' = ""
    /\ errors' = newErrors(formData)
    /\ calls' = Append(calls, SubmitCall(editingId, formData))
    /\ UNCHANGED <<patients, loading, formData, editingId, showForm,
                   searchKeyword, server, nextId>>

\* the form's submit event, up to the await
HandleSubmit ==
    /\ showForm
    /\ successMessage' = ""
    /\ errorMessage' = ""
    /\ errors' = newErrors(formData)
    /\ IF ~validateForm(formData)
       THEN calls' = calls
       ELSE calls' = Append(calls, SubmitCall(editingId, formData))
    /\ UNCHANGED <<patients, loading, formData, editingId, showForm,
                   searchKeyword, server, nextId>>

\* a success path that resets the form and fetches nothing
SubmitSuccessNoRefetch(c) ==
    /\ calls[c].kind \in {"create", "update"}
    /\ calls[c].stage = "ok"
    /\ successMessage' = IF calls[c].kind = "update"
                         THEN "Data pasien berhasil diperbarui!"
                         ELSE "Pasien baru berhasil ditambahkan!"
    /\ formData' = initialFormData
    /\ editingId' = NullId
    /\ showForm' = FALSE
    /\ calls' = Settled(c, "resolved")
    /\ UNCHANGED <<patients, loading, errors, errorMessage, searchKeyword,
                   server, nextId>>

\* handleSubmit resumed after updatePatient or createPatient resolved
SubmitSuccess(c) ==
    /\ calls[c].kind \in {"create", "update"}
    /\ calls[c].stage = "ok"
    /\ successMessage' = IF calls[c].kind = "update"
                         THEN "Data pasien berhasil diperbarui!"
                         ELSE "Pasien baru berhasil ditambahkan!"
    /\ formData' = initialFormData
    /\ editingId' = NullId
    /\ showForm' = FALSE
    /\ loading' = TRUE
    /\ calls' = Append(Settled(c, "resolved"),
                       NewCall("list", NullId, initialFormData, c))
    /\ UNCHANGED <<patients, errors, errorMessage, searchKeyword, server, nextId>>

\* the banner handleSubmit's catch block builds from the rejection
SubmitErrorMessage(err) ==
    IF err.response
    THEN IF err.hasErrors THEN Join(err.errors)
         ELSE IF err.message # "" THEN err.message ELSE "Terjadi kesalahan"
    ELSE "Terjadi kesalahan saat menyimpan data"

\* a catch block that also resets and closes the form
SubmitFailureClosesForm(c) ==
    /\ calls[c].kind \in {"create", "update"}
    /\ calls[c].stage = "fail"
    /\ errorMessage' = SubmitErrorMessage(calls[c].err)
    /\ formData' = initialFormData
    /\ editingId' = NullId
    /\ showForm' = FALSE
    /\ calls' = Settled(c, "rejected")
    /\ UNCHANGED <<patients, loading, errors, successMessage, searchKeyword,
                   server, nextId>>

\* handleSubmit resumed after updatePatient or createPatient rejected
SubmitFailure(c) ==
    /\ calls[c].kind \in {"create", "update"}
    /\ calls[c].stage = "fail"
    /\ errorMessage' = SubmitErrorMessage(calls[c].err)
    /\ calls' = Settled(c, "rejected")
    /\ UNCHANGED <<patients, loading, formData, errors, editingId, showForm,
                   successMessage, searchKeyword, server, nextId>>

-----------------------------------------------------------------------------
(* handleEdit, handleDelete, handleInputChange and the buttons *)

\* the rows of the table: rendered once loading is over
Rows == IF loading THEN {} ELSE {filteredPatients[k] : k \in 1..Len(filteredPatients)}

\* the Edit button of a row
HandleEdit(patient) ==
    /\ patient \in Rows
    /\ formData' = [nama |-> patient.nama, nik |-> patient.nik,
                    tanggal_lahir |-> SplitFirst(patient.tanggal_lahir, "T"),
                    jenis_kelamin |-> patient.jenis_kelamin,
                    alamat |-> patient.alamat,
                    no_telepon |-> patient.no_telepon,
                    email |-> patient.email,
                    golongan_darah |-> patient.golongan_darah]
    /\ editingId' = <<patient.id>>
    /\ showForm' = TRUE
    /\ errors' = NoErrors
    /\ UNCHANGED <<patients, loading, successMessage, errorMessage,
                   searchKeyword, calls, server, nextId>>

\* the Delete button of a row, up to the await; confirm is window.confirm's answer
HandleDelete(patient, confirm) ==
    /\ patient \in Rows
    /\ IF confirm
       THEN calls' = Append(calls, NewCall("delete", <<patient.id>>,
                                           initialFormData, 0))
       ELSE calls' = calls
    /\ UNCHANGED <<uiVars, server, nextId>>

\* handleDelete resumed after deletePatient resolved
DeleteSuccess(c) ==
    /\ calls[c].kind = "delete"
    /\ calls[c].stage = "ok"
    /\ successMessage' = "Data pasien berhasil dihapus!"
    /\ loading' = TRUE
    /\ calls' = Append(Settled(c, "resolved"),
                       NewCall("list", NullId, initialFormData, c))
    /\ UNCHANGED <<patients, formData, errors, editingId, showForm,
                   errorMessage, searchKeyword, server, nextId>>

\* handleDelete resumed after deletePatient rejected
DeleteFailure(c) ==
    /\ calls[c].kind = "delete"
    /\ calls[c].stage = "fail"
    /\ errorMessage' = "Gagal menghapus data pasien"
    /\ calls' = Settled(c, "rejected")
    /\ UNCHANGED <<patients, loading, formData, errors, editingId, showForm,
                   successMessage, searchKeyword, server, nextId>>

\* the fields in the order of the form
FormOrder == <<"nama", "nik", "tanggal_lahir", "jenis_kelamin", "no_telepon",
               "golongan_darah", "email", "alamat">>

\* what the user types or selects in the field name
InputValues(name) ==
    CASE name = "nama" -> {Ana}
      [] name = "nik" -> {Nik12, Nik56}
      [] name = "tanggal_lahir" -> {DateOnly}
      [] name = "jenis_kelamin" -> {LakiLaki}
      [] name = "alamat" -> {Jalan}
      [] name = "no_telepon" -> {Telepon}
      [] name = "email" -> {EmailOk, EmailBad}
      [] name = "golongan_darah" -> {GolO}

\* the user fills the form top to bottom: a field is typed into while it is
\* empty and the required fields above it are filled
Typable(name) ==
    /\ formData[name] = EmptyStr
    /\ \A j, k \in 1..Len(FormOrder) :
          (FormOrder[k] = name /\ j < k /\ FormOrder[j] # "email")
              => formData[FormOrder[j]] # EmptyStr

\* the change event of a field of the form
HandleInputChange(name, value) ==
    /\ showForm
    /\ formData' = [formData EXCEPT ![name] = value]
    /\ errors' = IF name \in DOMAIN errors /\ errors[name] # ""
                 THEN [errors EXCEPT ![name] = ""]
                 ELSE errors
    /\ UNCHANGED <<patients, loading, editingId, showForm, successMessage,
                   errorMessage, searchKeyword, calls, server, nextId>>

\* the button of the action bar: opens a blank form, or closes the form
ToggleForm ==
    /\ showForm' = ~showForm
    /\ formData' = initialFormData
    /\ editingId' = NullId
    /\ errors' = NoErrors
    /\ UNCHANGED <<patients, loading, successMessage, errorMessage,
                   searchKeyword, calls, server, nextId>>

\* the Batal button of the form
CancelForm ==
    /\ showForm
    /\ showForm' = FALSE
    /\ formData' = initialFormData
    /\ editingId' = NullId
    /\ errors' = NoErrors
    /\ UNCHANGED <<patients, loading, successMessage, errorMessage,
                   searchKeyword, calls, server, nextId>>

\* the change event of the search box
SetSearchKeyword(keyword) ==
    /\ searchKeyword' = keyword
    /\ UNCHANGED <<patients, loading, formData, errors, editingId, showForm,
                   successMessage, errorMessage, calls, server, nextId>>

-----------------------------------------------------------------------------
(* The record service and the network *)

\* GET /patients
ServeList(c) ==
    /\ calls[c].kind = "list"
    /\ calls[c].stage = "sent"
    /\ calls' = Answered(c, "ok", server, NoError)
    /\ UNCHANGED <<uiVars, server, nextId>>

NikTaken(nik, exceptId) ==
    \E k \in 1..Len(server) : server[k].nik = nik /\ <<server[k].id>> # exceptId

\* POST /patients
ServeCreate(c) ==
    /\ calls[c].kind = "create"
    /\ calls[c].stage = "sent"
    /\ IF NikTaken(calls[c].data.nik, NullId)
       THEN /\ calls' = Answered(c, "fail", <<>>, ErrNikExists)
            /\ UNCHANGED <<server, nextId>>
       ELSE /\ calls' = Answered(c, "ok", <<>>, NoError)
            /\ server' = Append(server, RecordOf(nextId, calls[c].data))
            /\ nextId' = nextId + 1
    /\ UNCHANGED uiVars

\* PATCH /patients/{id}
ServeUpdate(c) ==
    /\ calls[c].kind = "update"
    /\ calls[c].stage = "sent"
    /\ IF calls[c].id[1] \notin Ids(server)
       THEN /\ calls' = Answered(c, "fail", <<>>, ErrNotFound)
            /\ server' = server
       ELSE IF NikTaken(calls[c].data.nik, calls[c].id)
       THEN /\ calls' = Answered(c, "fail", <<>>, ErrNikExists)
            /\ server' = server
       ELSE /\ calls' = Answered(c, "ok", <<>>, NoError)
            /\ server' = [k \in 1..Len(server) |->
                            IF server[k].id = calls[c].id[1]
                            THEN RecordOf(server[k].id, calls[c].data)
                            ELSE server[k]]
    /\ UNCHANGED <<uiVars, nextId>>

\* DELETE /patients/{id}
ServeDelete(c) ==
    /\ calls[c].kind = "delete"
    /\ calls[c].stage = "sent"
    /\ IF calls[c].id[1] \notin Ids(server)
       THEN /\ calls' = Answered(c, "fail", <<>>, ErrNotFound)
            /\ server' = server
       ELSE /\ calls' = Answered(c, "ok", <<>>, NoError)
            /\ server' = SelectSeq(server, LAMBDA r : r.id # calls[c].id[1])
    /\ UNCHANGED <<uiVars, nextId>>

\* the call fails: the service answers with an error, or the network fails
CallFails(c, err) ==
    /\ calls[c].stage = "sent"
    /\ calls' = Answered(c, "fail", <<>>, err)
    /\ UNCHANGED <<uiVars, server, nextId>>

-----------------------------------------------------------------------------------------------------------------------------------------------------
(* The screen with its service *)

\* the service and the network act on the calls in flight, and the handlers
\* that await them resume
Network ==
    \/ \E c \in 1..Len(calls) : FetchSuccess(c)
    \/ \E c \in 1..Len(calls) : FetchFailure(c)
    \/ \E c \in 1..Len(calls) : SubmitSuccess(c)
    \/ \E c \in 1..Len(calls) : SubmitFailure(c)
    \/ \E c \in 1..Len(calls) : DeleteSuccess(c)
    \/ \E c \in 1..Len(calls) : DeleteFailure(c)
    \/ \E c \in 1..Len(calls) : ServeList(c)
    \/ \E c \in 1..Len(calls) : ServeCreate(c)
    \/ \E c \in 1..Len(calls) : ServeUpdate(c)
    \/ \E c \in 1..Len(calls) : ServeDelete(c)
    \/ \E c \in 1..Len(calls) : \E err \in Failures(calls[c].kind) :
            CallFails(c, err)

\* the user submits the form, in a run of at most limit calls
Submits(limit) ==
    /\ validateForm(formData) => CanIssueMutation(limit)
    /\ HandleSubmit

\* the user presses Delete in a row and answers the confirmation
Deletes(limit) ==
    \E k \in 1..Len(patients), confirm \in BOOLEAN :
        /\ confirm => CanIssueMutation(limit)
        /\ HandleDelete(patients[k], confirm)

\* the user works with the form and the rows while calls are in flight
Next ==
    \/ Network
    \/ Submits(MaxCalls)
    \/ Deletes(MaxCalls)
    \/ \E k \in 1..Len(patients) : HandleEdit(patients[k])
    \/ \E name \in {f \in Fields : Typable(f)} : \E value \in InputValues(name) :
            HandleInputChange(name, value)
    \/ ToggleForm
    \/ CancelForm

Spec == Init /\ [][Next]_vars

\* the user only presses the buttons of the rows and of the form they open,
\* so that more calls overlap
NextRace ==
    \/ Network
    \/ Submits(MaxRaceCalls)
    \/ Deletes(MaxRaceCalls)
    \/ \E k \in 1..Len(patients) : HandleEdit(patients[k])
    \/ CancelForm

SpecRace == Init /\ [][NextRace]_vars

-----------------------------------------------------------------------------
(* The validator on bounded drafts *)

NikChars == {"1", "A", " "}
EmailChars == {"a", "@", ".", " "}

\* drafts that vary every required field, the identity number most
NikDrafts ==
    [nama : {EmptyStr, <<" ">>, Ana, <<" ">> \o Ana \o <<" ">>},
     nik : StringsUpTo(NikChars, MaxNikLen) \cup {Nik56, Nik12AB},
     tanggal_lahir : {EmptyStr, DateOnly},
     jenis_kelamin : {EmptyStr, LakiLaki},
     alamat : {EmptyStr, <<" ", " ">>, Jalan},
     no_telepon : {EmptyStr, <<"\t">>, Telepon},
     email : {EmptyStr, EmailOk, EmailBad},
     golongan_darah : {EmptyStr, GolO}]

\* drafts that vary the email, in a blank, a filled and an ill-numbered form
EmailDrafts ==
    {[d EXCEPT !.email = e] :
        d \in {initialFormData, FilledDraft, [FilledDraft EXCEPT !.nik = Nik12AB]},
        e \in StringsUpTo(EmailChars, MaxEmailLen)}

\* the screen once the mount fetch resolved and the user opened the form and
\* filled it in
InitValidate ==
    /\ patients = ServerRecords
    /\ loading = FALSE
    /\ formData \in NikDrafts \cup EmailDrafts
    /\ errors = NoErrors
    /\ editingId = NullId
    /\ showForm = TRUE
    /\ successMessage = ""
    /\ errorMessage = ""
    /\ searchKeyword = EmptyStr
    /\ calls = <<[NewCall("list", NullId, initialFormData, 0)
                    EXCEPT !.stage = "resolved"]>>
    /\ server = ServerRecords
    /\ nextId = 2

NextValidate == Submits(MaxCalls)

SpecValidate == InitValidate /\ [][NextValidate]_vars

-----------------------------------------------------------------------------
(* The filter on bounded lists and keywords *)

KeywordChars == {"b", "u", "B", "1"}

Keywords == StringsUpTo(KeywordChars, MaxKeywordLen)

FilterDrafts ==
    {[FilledDraft EXCEPT !.nama = n, !.nik = k] :
        n \in {Budi, Sari, <<"B", "U">>}, k \in {Nik12, <<"3", "1">>}}

\* the lists the service can answer the mount fetch with
FilterLists ==
    {[k \in 1..Len(ds) |-> RecordOf(k - 1, ds[k])] :
        ds \in StringsUpTo(FilterDrafts, MaxListLen)}

\* the screen once the mount fetch resolved
InitFilter ==
    /\ patients \in FilterLists
    /\ loading = FALSE
    /\ formData = initialFormData
    /\ errors = NoErrors
    /\ editingId = NullId
    /\ showForm = FALSE
    /\ successMessage = ""
    /\ errorMessage = ""
    /\ searchKeyword = EmptyStr
    /\ calls = <<[NewCall("list", NullId, initialFormData, 0)
                    EXCEPT !.stage = "resolved"]>>
    /\ server = patients
    /\ nextId = Len(patients)

NextFilter == \E keyword \in Keywords : SetSearchKeyword(keyword)

SpecFilter == InitFilter /\ [][NextFilter]_vars

-----------------------------------------------------------------------------
(* Properties of the validator *)

RequiredFields == Fields \ {"email"}

TextualFields == {"nama", "nik", "alamat", "no_telepon"}

\* empty, or nothing but whitespace
Blank(s) == \A i \in 1..Len(s) : s[i] \in WhiteSpace

\* the required field f of the draft fd is missing
MissingField(fd, f) ==
    IF f \in TextualFields THEN Blank(fd[f]) ELSE fd[f] = EmptyStr

IssuedMutations == {c \in 1..Len(calls) : calls[c].kind \in Mutations}

\* the form was submitted: the validator stored a mapping or let a call out
Submitted == errors # NoErrors \/ IssuedMutations # {}

\* C1: a submit of a draft that fails validation issues no call (a create or
\* update call is only ever issued for a draft the validator accepts), stores
\* the validator's non-empty mapping in errors, and leaves patients, formData,
\* editingId and showForm as they were.
C1_InvalidSubmitIssuesNoCall ==
    [][/\ (Len(calls') > Len(calls)
            /\ calls'[Len(calls')].kind \in {"create", "update"})
          => validateForm(formData)
       /\ (HandleSubmit /\ ~validateForm(formData))
          => /\ calls' = calls
             /\ errors' = newErrors(formData)
             /\ DOMAIN errors' # {}
             /\ UNCHANGED <<patients, formData, editingId, showForm>>]_vars

\* an invalid draft was submitted: its errors are shown, no mutation was issued
C1_Witness ==
    /\ showForm
    /\ ~validateForm(formData)
    /\ errors = newErrors(formData)
    /\ IssuedMutations = {}

\* C2: after a submit, every required field that is missing (empty, or only
\* whitespace for the textual ones) has its own message in the mapping, and a
\* draft with a missing required field was judged invalid: no call was issued.
C2_EveryMissingFieldReported ==
    Submitted =>
        /\ \A f \in RequiredFields :
              MissingField(formData, f) => (f \in DOMAIN errors /\ errors[f] # "")
        /\ (\E f \in RequiredFields : MissingField(formData, f))
              => IssuedMutations = {}

\* a draft with a whitespace-only name and an empty address: both reported
C2_Witness ==
    /\ Submitted
    /\ formData.nama = <<" ">>
    /\ formData.alamat = EmptyStr
    /\ {"nama", "alamat"} \subseteq DOMAIN errors
    /\ IssuedMutations = {}

\* C3: after a submit, the mapping has a nik entry exactly when nik is blank
\* or holds a character that is no digit, whatever the other fields hold; a
\* draft with nik "12AB" and nothing else wrong yields the one key nik.
C3_NikFlaggedIffBlankOrNonDigit ==
    Submitted =>
        /\ ("nik" \in DOMAIN errors) <=>
              (\/ Blank(formData.nik)
               \/ \E i \in 1..Len(formData.nik) : formData.nik[i] \notin Digits)
        /\ (/\ formData.nik = Nik12AB
            /\ \A f \in RequiredFields \ {"nik"} : ~MissingField(formData, f)
            /\ formData.email \in {EmptyStr, EmailOk})
              => DOMAIN errors = {"nik"}

\* the draft of the scenario, submitted: name Ana, nik 12AB, the rest filled
C3_Witness ==
    /\ Submitted
    /\ formData = [FilledDraft EXCEPT !.nik = Nik12AB]
    /\ DOMAIN errors = {"nik"}

\* no whitespace and no '@', and not empty
CleanPart(s) ==
    /\ s # EmptyStr
    /\ \A i \in 1..Len(s) : s[i] \notin WhiteSpace /\ s[i] # "@"

\* s is local@domain.tld
WellShaped(s) ==
    \E i \in 1..Len(s), j \in 1..Len(s) :
        /\ i < j
        /\ s[i] = "@"
        /\ s[j] = "."
        /\ CleanPart(SubSeq(s, 1, i - 1))
        /\ CleanPart(SubSeq(s, i + 1, j - 1))
        /\ CleanPart(SubSeq(s, j + 1, Len(s)))

LacksAt(s) == \A i \in 1..Len(s) : s[i] # "@"

\* no '.' after an '@' that is followed by at least one character
LacksDomainSegment(s) ==
    ~\E i \in 1..Len(s), j \in 1..Len(s) :
        i < j /\ j < Len(s) /\ s[i] = "@" /\ s[j] = "."

\* C4 as claimed: a well-shaped email is never flagged, and every string
\* without an '@' or without a domain segment is flagged (the empty string,
\* which has no '@', included).
C4_AsClaimed ==
    Submitted =>
        /\ WellShaped(formData.email) => "email" \notin DOMAIN errors
        /\ (LacksAt(formData.email) \/ LacksDomainSegment(formData.email))
              => "email" \in DOMAIN errors

\* C4: a well-shaped email is never flagged, and every non-empty string
\* without an '@' or without a domain segment is flagged; the empty email is
\* never flagged.
C4_EmailShape ==
    Submitted =>
        /\ WellShaped(formData.email) => "email" \notin DOMAIN errors
        /\ (/\ formData.email # EmptyStr
            /\ LacksAt(formData.email) \/ LacksDomainSegment(formData.email))
              => "email" \in DOMAIN errors
        /\ formData.email = EmptyStr => "email" \notin DOMAIN errors

\* an email with an '@' and no domain segment, submitted and flagged
C4_Witness ==
    /\ Submitted
    /\ formData.email = <<"a", "@", "a", ".">>
    /\ "email" \in DOMAIN errors
    /\ errors["email"] = "Format email tidak valid"

-----------------------------------------------------------------------------
(* Properties of the filter *)

\* sub occurs in s, letters compared with their case ignored or not
Occurs(s, sub, ignoreCase) ==
    \E off \in 0..(Len(s) - Len(sub)) :
        \A j \in 1..Len(sub) :
            IF ignoreCase THEN LowerOf(s[off + j]) = LowerOf(sub[j])
            ELSE s[off + j] = sub[j]

\* the positions of the list whose record the keyword selects
Selected ==
    {i \in 1..Len(patients) :
        \/ Occurs(patients[i].nama, searchKeyword, TRUE)
        \/ Occurs(patients[i].nik, searchKeyword, FALSE)}

\* the k-th selected position
SelectedAt(k) ==
    CHOOSE i \in Selected : Cardinality({j \in Selected : j <= i}) = k

ViewIsSelection ==
    /\ Len(filteredPatients) = Cardinality(Selected)
    /\ \A k \in 1..Len(filteredPatients) :
          filteredPatients[k] = patients[SelectedAt(k)]
    /\ searchKeyword = EmptyStr => filteredPatients = patients
    /\ (/\ Len(patients) = 2
        /\ patients[1].nama = Budi
        /\ patients[2].nama = Sari
        /\ searchKeyword = <<"b", "u">>)
          => filteredPatients = <<patients[1]>>

\* C5: the view is the records of the list, in the list's order, whose name
\* holds the keyword with case ignored or whose nik holds it; the empty
\* keyword gives the whole list; Budi and Sari with "bu" give Budi; and
\* typing a keyword leaves the list as it was.
C5_FilteredView == []ViewIsSelection /\ [][patients' = patients]_vars

\* Budi and Sari listed, "bu" typed: the view holds Budi alone
C5_Witness ==
    /\ Len(patients) = 2
    /\ patients[1].nama = Budi
    /\ patients[2].nama = Sari
    /\ searchKeyword = <<"b", "u">>
    /\ Len(filteredPatients) = 1
    /\ filteredPatients[1].nama = Budi

-----------------------------------------------------------------------------
(* Properties of the failure handling *)

\* the step resumes the handler awaiting call c, from stage before to after
Settles(c, before, after) ==
    calls[c].stage = before /\ calls'[c].stage = after

\* the banner is built from the payload err when it carries one
BannerFromPayload(err, banner) ==
    IF err.response /\ err.hasErrors THEN banner = Join(err.errors)
    ELSE IF err.response /\ err.message # "" THEN banner = err.message
    ELSE TRUE

\* C6 as claimed: whenever a create, update or delete call fails, the banner
\* set is not empty and is the payload's joined errors, else the payload's
\* message, and generic only without a usable payload.
C6_AsClaimed ==
    [][\A c \in 1..Len(calls) :
          (calls[c].kind \in Mutations /\ Settles(c, "fail", "rejected"))
             => /\ errorMessage' # ""
                /\ BannerFromPayload(calls[c].err, errorMessage')]_vars

\* C7: the step that handles a failed create or update changes the error
\* banner and nothing else of the screen: showForm, formData, editingId,
\* patients and successMessage keep their values, and no call is issued.
C7_FailureLeavesFormOpen ==
    [][\A c \in 1..Len(calls) :
          (calls[c].kind \in {"create", "update"} /\ Settles(c, "fail", "rejected"))
             => /\ UNCHANGED <<patients, loading, formData, errors, editingId,
                              showForm, successMessage, searchKeyword>>
                /\ showForm => showForm'
                /\ Len(calls') = Len(calls)]_vars

\* a create was rejected for its nik: the banner shows the service's error
\* and the form still holds the submitted draft
C7_Witness ==
    /\ \E c \in 1..Len(calls) :
          calls[c].kind = "create" /\ calls[c].stage = "rejected"
    /\ showForm
    /\ formData = [FilledDraft EXCEPT !.nik = Nik12]
    /\ editingId = NullId
    /\ errorMessage = "NIK already exists"
    /\ successMessage = ""

FetchResolved == {c \in 1..Len(calls) :
                    calls[c].kind = "list" /\ calls[c].stage = "resolved"}

\* C8: the step that handles a failed list fetch leaves patients as it was,
\* sets the one fetch banner, resets loading and issues no call; and patients
\* is empty as long as no fetch has resolved.
C8_FailedFetchKeepsList ==
    /\ [](FetchResolved = {} => patients = <<>>)
    /\ [][\A c \in 1..Len(calls) :
            (calls[c].kind = "list" /\ Settles(c, "fail", "rejected"))
               => /\ patients' = patients
                  /\ errorMessage' =
                        "Gagal mengambil data pasien. Pastikan backend sudah berjalan."
                  /\ loading' = FALSE
                  /\ Len(calls') = Len(calls)]_vars

\* a refetch failed after the list was loaded: the loaded list is still held
C8_Witness ==
    /\ \E c \in 1..Len(calls) :
          calls[c].kind = "list" /\ calls[c].stage = "rejected"
    /\ patients = ServerRecords
    /\ server # ServerRecords
    /\ loading = FALSE
    /\ errorMessage = "Gagal mengambil data pasien. Pastikan backend sudah berjalan."

-----------------------------------------------------------------------------
(* Properties of the refetch *)

DeletesResolved(cs) ==
    {d \in 1..Len(cs) : cs[d].kind = "delete" /\ cs[d].stage = "resolved"}

\* the list fetch issued by the success of call c
FetchOf(cs, c) == CHOOSE f \in 1..Len(cs) : cs[f].kind = "list" /\ cs[f].cause = c

\* C9 as claimed: the fetch issued on a delete's success returns a list
\* without the identifier, and once that fetch has resolved and no call is in
\* flight any more, patients does not contain the identifier.
C9_AsClaimed ==
    \A d \in DeletesResolved(calls) :
        LET f == FetchOf(calls, d)
        IN  /\ calls[f].stage = "ok" => calls[d].id[1] \notin Ids(calls[f].list)
            /\ (calls[f].stage = "resolved" /\ Unsettled = {})
                  => calls[d].id[1] \notin Ids(patients)

\* C9: the fetch issued on a delete's success, and every list fetch issued
\* after it, is answered with a list without the identifier, and patients
\* does not contain the identifier when such an answer is applied.
C9_FetchAfterDeleteLacksId ==
    [][\A d \in DeletesResolved(calls') :
          \A f \in FetchOf(calls', d)..Len(calls') :
              calls'[f].kind = "list" =>
                 /\ calls'[f].stage = "ok"
                       => calls'[d].id[1] \notin Ids(calls'[f].list)
                 /\ (f <= Len(calls) /\ Settles(f, "ok", "resolved"))
                       => calls'[d].id[1] \notin Ids(patients')]_vars

\* a delete resolved, its fetch resolved, and the list held lacks the record
C9_Witness ==
    \E d \in DeletesResolved(calls) :
        /\ calls[FetchOf(calls, d)].stage = "resolved"
        /\ calls[d].id[1] \notin Ids(patients)
        /\ patients = server
        /\ Len(patients) = 1

\* C10 as claimed: every step in which a create, update or delete call
\* completes, resolved or rejected, issues a list fetch; a resolved fetch
\* replaces patients by its response, and patients changes in no other step.
C10_AsClaimed ==
    [][/\ \A c \in 1..Len(calls) :
             (/\ calls[c].kind \in Mutations
              /\ Settles(c, "ok", "resolved") \/ Settles(c, "fail", "rejected"))
                => /\ Len(calls') = Len(calls) + 1
                   /\ calls'[Len(calls')] = NewCall("list", NullId, initialFormData, c)
       /\ \A c \in 1..Len(calls) :
             (calls[c].kind = "list" /\ Settles(c, "ok", "resolved"))
                => patients' = calls[c].list
       /\ patients' # patients
             => \E c \in 1..Len(calls) :
                   calls[c].kind = "list" /\ Settles(c, "ok", "resolved")]_vars

\* C10: every step in which a create, update or delete call resolves issues
\* a list fetch and sets loading; a step in which one is rejected issues
\* none; a resolved fetch replaces patients by its response, and patients
\* changes in no other step, so it is the response of the fetch that
\* resolved last (empty before the first).
C10_RefetchOnSuccess ==
    [][/\ \A c \in 1..Len(calls) :
             (calls[c].kind \in Mutations /\ Settles(c, "ok", "resolved"))
                => /\ Len(calls') = Len(calls) + 1
                   /\ calls'[Len(calls')] = NewCall("list", NullId, initialFormData, c)
                   /\ loading'
       /\ \A c \in 1..Len(calls) :
             (calls[c].kind \in Mutations /\ Settles(c, "fail", "rejected"))
                => Len(calls') = Len(calls)
       /\ \A c \in 1..Len(calls) :
             (calls[c].kind = "list" /\ Settles(c, "ok", "resolved"))
                => patients' = calls[c].list
       /\ patients' # patients
             => \E c \in 1..Len(calls) :
                   calls[c].kind = "list" /\ Settles(c, "ok", "resolved")]_vars

\* an update resolved and the fetch it issued resolved: the list held is the
\* service's
C10_Witness ==
    \E c \in 1..Len(calls) :
        /\ calls[c].kind = "update"
        /\ calls[c].stage = "resolved"
        /\ calls[FetchOf(calls, c)].stage = "resolved"
        /\ successMessage = "Data pasien berhasil diperbarui!"
        /\ loading = FALSE
        /\ patients = server

-----------------------------------------------------------------------------
(* Idempotence of the filter *)

\* C11: filtering the view again with the keyword that produced it gives the
\* same view: the same records in the same order.
C11_FilterIdempotent ==
    Filter(filteredPatients, searchKeyword) = filteredPatients

\* a keyword that keeps one record of two and drops the other: filtering the
\* one kept again keeps it
C11_Witness ==
    /\ searchKeyword # EmptyStr
    /\ Len(patients) = 2
    /\ Len(filteredPatients) = 1
    /\ Filter(filteredPatients, searchKeyword) = <<filteredPatients[1]>>

-----------------------------------------------------------------------------
(* Which call a valid submit issues *)

\* C12 as claimed: a valid submit made while a record is being edited
\* (editingId holds the identifier Edit stored, 0 included) issues
\* updatePatient with that identifier and the draft, and no create; a valid
\* submit made while no record is being edited issues createPatient with the
\* draft and no identifier, and no update.
C12_AsClaimed ==
    [][(HandleSubmit /\ validateForm(formData))
          => /\ Len(calls') = Len(calls) + 1
             /\ calls'[Len(calls')] =
                   IF editingId # NullId
                   THEN NewCall("update", editingId, formData, 0)
                   ELSE NewCall("create", NullId, formData, 0)]_vars

====
